---- MODULE Spec2Model ----
(***************************************************************************)
(* Staircase quantity engine: calculateStairMetrics of                     *)
(* src/Staircase/services/stairCalculator.ts, run step by step.            *)
(*                                                                         *)
(* Numbers.  The engine computes on IEEE doubles.  A finite real x is held *)
(* here in fixed point, as the integer 1000 * x: the height 4.0 is 4000,   *)
(* the input riser 180 (millimetres) is 180000 and the normalised riser    *)
(* 0.18 is 180.  A product of reals is cut to that grid (FxMul).  Counts   *)
(* (risers, treads, flights, landings) are plain integers.  A quantity     *)
(* that the height can drive out of the finite range is a record [k, v]:   *)
(* k = "fin" with the integer v, k = "inf" for +Infinity, k = "nan" for    *)
(* NaN.                                                                    *)
(*                                                                         *)
(* The view state of StairVisualizer (zoom and offset) is modelled         *)
(* beside it, under a specification of its own (VizSpec): the zoom is held *)
(* in hundredths, the offset in whole pixels.                              *)
(***************************************************************************)
EXTENDS Integers, Sequences, FiniteSets, TLC

VARIABLES
    params,        \* the StairInputParams the call is given
    pc,            \* position of the call
    H, SW, R, T, ST, LL, LD, LT,   \* normalised inputs (lines 6-13)
    total_risers, num_flights, num_landings,
    base_risers_per_flight, extra_risers,
    i,             \* the flight loop's index
    flights_data,  \* the FlightData pushed so far
    skipped,       \* how often the loop took its `continue`
    report,        \* the StairMetrics returned
    results,       \* App's memoised results ("pending", "report", "null")
    zoom,          \* StairVisualizer's zoom state
    offset,        \* StairVisualizer's offset state, <<x, y>>
    wheelZoom,     \* the zoom the registered wheel handler closed over
    wheelOffset,   \* the offset the registered wheel handler closed over
    lastEvent      \* the event handled last: its kind and, for a wheel
                   \* event, its deltaY

engineVars == <<params, pc, H, SW, R, T, ST, LL, LD, LT, total_risers,
                num_flights, num_landings, base_risers_per_flight,
                extra_risers, i, flights_data, skipped, report, results>>

vizVars == <<zoom, offset, wheelZoom, wheelOffset, lastEvent>>

vars == <<engineVars, vizVars>>

-----------------------------------------------------------------------------
(* Bounds of the model *)

\* heights 0, 0.45, 0.9, ... are tried besides the band edges
MaxHeightSteps == 4

\* pushes a FlightData array takes before the engine refuses to grow it
\* (2^32 - 1 elements in ECMAScript, far less memory permitting)
MaxArrayLength == 9

-----------------------------------------------------------------------------
(* IEEE doubles, as far as the engine uses them *)

Fin(n) == [k |-> "fin", v |-> n]
PosInf == [k |-> "inf", v |-> 0]
NaN == [k |-> "nan", v |-> 0]

IsFin(a) == a.k = "fin"

\* a < b
JsLt(a, b) ==
    IF a.k = "nan" \/ b.k = "nan" THEN FALSE
    ELSE IF a.k = "inf" THEN FALSE
    ELSE IF b.k = "inf" THEN TRUE
    ELSE a.v < b.v

\* a <= b
JsLe(a, b) ==
    IF a.k = "nan" \/ b.k = "nan" THEN FALSE
    ELSE IF b.k = "inf" THEN TRUE
    ELSE IF a.k = "inf" THEN FALSE
    ELSE a.v <= b.v

\* a > b
JsGt(a, b) == JsLt(b, a)

\* a === b
JsEq(a, b) == a.k # "nan" /\ b.k # "nan" /\ a = b

\* a + b (no -Infinity arises: every operand here is finite, +Infinity or NaN)
JsAdd(a, b) ==
    IF a.k = "nan" \/ b.k = "nan" THEN NaN
    ELSE IF a.k = "inf" \/ b.k = "inf" THEN PosInf
    ELSE Fin(a.v + b.v)

\* a - b for a finite b
JsSub(a, b) ==
    IF a.k = "nan" \/ b.k = "nan" THEN NaN
    ELSE IF a.k = "inf" THEN PosInf
    ELSE Fin(a.v - b.v)

\* variant: Math.max in place of Math.min
JsMinAsMax(a, b) ==
    IF a.k = "nan" \/ b.k = "nan" THEN NaN
    ELSE IF JsLe(a, b) THEN b ELSE a

\* Math.min(a, b)
JsMin(a, b) ==
    IF a.k = "nan" \/ b.k = "nan" THEN NaN
    ELSE IF JsLe(a, b) THEN a ELSE b

\* variant: Math.floor in place of Math.ceil
JsCeilDivFloor(a, d) ==
    IF IsFin(a) THEN Fin(a.v \div d) ELSE a

\* Math.ceil(a / d) for a finite integer d > 0 and an integral a
JsCeilDiv(a, d) ==
    IF IsFin(a) THEN Fin(-((-a.v) \div d)) ELSE a

\* Math.floor(a / b) for integral a >= 0, b > 0; Infinity / Infinity is NaN
JsFloorDiv(a, b) ==
    IF a.k = "nan" \/ b.k = "nan" THEN NaN
    ELSE IF a.k = "inf" /\ b.k = "inf" THEN NaN
    ELSE IF a.k = "inf" THEN PosInf
    ELSE IF b.k = "inf" THEN Fin(0)
    ELSE Fin(a.v \div b.v)

\* a % b for integral a >= 0, b > 0; Infinity % b is NaN, a % Infinity is a
JsMod(a, b) ==
    IF a.k = "nan" \/ b.k = "nan" THEN NaN
    ELSE IF a.k = "inf" THEN NaN
    ELSE IF b.k = "inf" THEN a
    ELSE Fin(a.v % b.v)

\* a * m where a is a count and m a finite length > 0
JsScale(a, m) ==
    IF a.k = "nan" THEN NaN
    ELSE IF a.k = "inf" THEN PosInf
    ELSE Fin(a.v * m)

\* the largest s in lo..hi with s * s <= n
RECURSIVE SqrtIn(_, _, _)
SqrtIn(n, lo, hi) ==
    IF lo >= hi THEN lo
    ELSE LET mid == (lo + hi + 1) \div 2
         IN  IF mid * mid <= n THEN SqrtIn(n, mid, hi) ELSE SqrtIn(n, lo, mid - 1)

Abs(x) == IF x < 0 THEN -x ELSE x

\* Math.max, Math.min on finite numbers
Max2(a, b) == IF a > b THEN a ELSE b
Min2(a, b) == IF a < b THEN a ELSE b

\* Math.sqrt(run**2 + rise**2), cut to the thousandth
JsHypot(run, rise) ==
    IF run.k = "nan" \/ rise.k = "nan" THEN NaN
    ELSE IF run.k = "inf" \/ rise.k = "inf" THEN PosInf
    ELSE Fin(SqrtIn(run.v * run.v + rise.v * rise.v, 0, Abs(run.v) + Abs(rise.v)))

\* the product of two reals held in thousandths, cut to the thousandth
FxMul(a, b) == (a * b) \div 1000

\* variant: Math.floor in place of Math.round
RoundQuotientFloor(h, r) == {h \div r}

\* Math.round(h / r) for finite h and r > 0: the nearest integer, a tie going
\* up.  At an exact tie above 1 the double quotient h / r can fall a last
\* place short of .5 (0.043 / 0.002 is 21.499999999999996), and then
\* Math.round goes down: both outcomes are kept.  Half a whole-millimetre
\* riser is the double R / 2 exactly (halving is exact in binary), its
\* quotient is exactly 0.5 and Math.round gives 1.
RoundQuotient(h, r) ==
    LET q == h \div r
        twice == 2 * (h % r)
    IN  IF twice < r THEN {q}
        ELSE IF twice > r THEN {q + 1}
        ELSE IF q = 0 THEN {1}
        ELSE {q, q + 1}

-----------------------------------------------------------------------------
(* The inputs tried *)

\* heights (metres): the band edges, the default, a
\* sub-riser height, half a riser, one riser, a negative and a zero height,
\* and three heights of the band above 12
FiniteHeights ==
    {-1000, 50, 90, 180, 4000, 5700, 5701, 8000, 8001, 12000, 12001,
     13000, 16200, 20000}
        \cup {450 * n : n \in 0..MaxHeightSteps}

\* +Infinity stands for itself and for every finite height whose quotient by
\* the riser overflows the double range (1e308 m over a 0.18 m riser)
Heights == {Fin(h) : h \in FiniteHeights} \cup {PosInf}

\* millimetre inputs
Risers == {-180000, 0, 150000, 180000, 3000000, 6000000}
Treads == {-280000, 0, 250000, 280000}
StairWidths == {0, 1950000}
SlabThicks == {150000}
LandingLengths == {4100000}
LandingDepths == {0, 1495000}
LandingThicks == {200000}

Inputs ==
    [height : Heights, stairWidth : StairWidths, riser : Risers, tread : Treads,
     slabThick : SlabThicks, landingLength : LandingLengths,
     landingDepth : LandingDepths, landingThick : LandingThicks]

\* the application's initial parameters
DefaultParams ==
    [height |-> Fin(4000), stairWidth |-> 1950000, riser |-> 180000,
     tread |-> 280000, slabThick |-> 150000, landingLength |-> 4100000,
     landingDepth |-> 1495000, landingThick |-> 200000]

-----------------------------------------------------------------------------
(* calculateStairMetrics *)

\* no report yet: no field of a returned report is NaN
NoReport ==
    [num_flights |-> NaN, num_landings |-> NaN, total_treads |-> NaN,
     total_volume |-> NaN, total_formwork_area |-> NaN,
     formwork_bottom_slab |-> NaN, formwork_landing_bottom |-> NaN,
     formwork_risers |-> NaN, formwork_above_slab |-> NaN,
     volume_waist_slabs |-> NaN, volume_landings |-> NaN, volume_steps |-> NaN,
     flights_data |-> <<>>, R |-> 0, T |-> 0, ST |-> 0, LD |-> 0, LT |-> 0]

Init ==
    /\ params \in Inputs
    /\ pc = "start"
    /\ H = Fin(0) /\ SW = 0 /\ R = 0 /\ T = 0 /\ ST = 0 /\ LL = 0 /\ LD = 0 /\ LT = 0
    /\ total_risers = Fin(0) /\ num_flights = Fin(0) /\ num_landings = Fin(0)
    /\ base_risers_per_flight = Fin(0) /\ extra_risers = Fin(0)
    /\ i = 0
    /\ flights_data = <<>>
    /\ skipped = 0
    /\ report = NoReport
    /\ results = "pending"
    /\ zoom = 100
    /\ offset = <<0, 0>>
    /\ wheelZoom = 100
    /\ wheelOffset = <<0, 0>>
    /\ lastEvent = [kind |-> "mount", deltaY |-> 0]

\* variant: the input taken for centimetres
ToMetresFromCm(mm) == mm \div 100

\* a millimetre input divided by 1000
ToMetres(mm) == mm \div 1000

\* lines 6-13
Normalize ==
    /\ pc = "start"
    /\ H' = params.height
    /\ SW' = ToMetres(params.stairWidth)
    /\ R' = ToMetres(params.riser)
    /\ T' = ToMetres(params.tread)
    /\ ST' = ToMetres(params.slabThick)
    /\ LL' = ToMetres(params.landingLength)
    /\ LD' = ToMetres(params.landingDepth)
    /\ LT' = ToMetres(params.landingThick)
    /\ pc' = "gate"
    /\ UNCHANGED vizVars
    /\ UNCHANGED <<params, total_risers, num_flights, num_landings,
                   base_risers_per_flight, extra_risers, i, flights_data,
                   skipped, report, results>>

\* variant: the gate without its tread test
InvalidNoTread == R <= 0 \/ JsLe(H, Fin(0))

\* line 16
Invalid == R <= 0 \/ JsLe(H, Fin(0)) \/ T <= 0

\* variant: the zero report with its constants zeroed too
ZeroReportNoConstants ==
    [num_flights |-> Fin(0), num_landings |-> Fin(0), total_treads |-> Fin(0),
     total_volume |-> Fin(0), total_formwork_area |-> Fin(0),
     formwork_bottom_slab |-> Fin(0), formwork_landing_bottom |-> Fin(0),
     formwork_risers |-> Fin(0), formwork_above_slab |-> Fin(0),
     volume_waist_slabs |-> Fin(0), volume_landings |-> Fin(0),
     volume_steps |-> Fin(0), flights_data |-> <<>>,
     R |-> 0, T |-> 0, ST |-> 0, LD |-> 0, LT |-> 0]

\* lines 17-22
ZeroReport ==
    [num_flights |-> Fin(0), num_landings |-> Fin(0), total_treads |-> Fin(0),
     total_volume |-> Fin(0), total_formwork_area |-> Fin(0),
     formwork_bottom_slab |-> Fin(0), formwork_landing_bottom |-> Fin(0),
     formwork_risers |-> Fin(0), formwork_above_slab |-> Fin(0),
     volume_waist_slabs |-> Fin(0), volume_landings |-> Fin(0),
     volume_steps |-> Fin(0), flights_data |-> <<>>,
     R |-> R, T |-> T, ST |-> ST, LD |-> LD, LT |-> LT]

\* lines 16-23
ReturnZero ==
    /\ pc = "gate"
    /\ Invalid
    /\ report' = ZeroReport
    /\ pc' = "done"
    /\ UNCHANGED vizVars
    /\ UNCHANGED <<params, H, SW, R, T, ST, LL, LD, LT, total_risers,
                   num_flights, num_landings, base_risers_per_flight,
                   extra_risers, i, flights_data, skipped, results>>

\* variant: the bands without the zero-riser case
BandFlightsNoZero(h, tr) ==
    IF JsLe(h, Fin(5700)) THEN Fin(2)
    ELSE IF JsLe(h, Fin(8000)) THEN Fin(4)
    ELSE IF JsLe(h, Fin(12000)) THEN Fin(6)
    ELSE JsCeilDiv(tr, 18)

\* variant: the bands with exclusive upper bounds
BandFlightsExclusive(h, tr) ==
    IF JsEq(tr, Fin(0)) THEN Fin(0)
    ELSE IF JsLt(h, Fin(5700)) THEN Fin(2)
    ELSE IF JsLt(h, Fin(8000)) THEN Fin(4)
    ELSE IF JsLt(h, Fin(12000)) THEN Fin(6)
    ELSE JsCeilDiv(tr, 18)

\* lines 29-44: the flight count of the height band
BandFlights(h, tr) ==
    IF JsEq(tr, Fin(0)) THEN Fin(0)
    ELSE IF JsLe(h, Fin(5700)) THEN Fin(2)
    ELSE IF JsLe(h, Fin(8000)) THEN Fin(4)
    ELSE IF JsLe(h, Fin(12000)) THEN Fin(6)
    ELSE JsCeilDiv(tr, 18)

\* variant: the flight count left unclamped
ClampFlightsOff(nf, tr) == nf

\* lines 48-50: no more flights than risers
ClampFlights(nf, tr) ==
    IF JsGt(tr, Fin(0)) THEN JsMin(nf, tr) ELSE nf

\* variant: one landing fewer than flights, unguarded
LandingsUnguarded(nf) == JsSub(nf, Fin(1))

\* line 52
Landings(nf) ==
    IF JsGt(nf, Fin(0)) THEN JsSub(nf, Fin(1)) ELSE Fin(0)

\* line 26: Math.round(H / R), R > 0
TotalRisers(h, r) ==
    IF IsFin(h) THEN {Fin(n) : n \in RoundQuotient(h.v, r)} ELSE {h}

\* lines 26-52
DeriveTopology ==
    /\ pc = "gate"
    /\ ~Invalid
    /\ \E tr \in TotalRisers(H, R) :
          /\ total_risers' = tr
          /\ num_flights' = ClampFlights(BandFlights(H, tr), tr)
    /\ num_landings' = Landings(num_flights')
    /\ pc' = "distribute"
    /\ UNCHANGED vizVars
    /\ UNCHANGED <<params, H, SW, R, T, ST, LL, LD, LT, base_risers_per_flight,
                   extra_risers, i, flights_data, skipped, report, results>>

\* variant: the base count rounded up
BaseRisersCeil(tr, nf) ==
    IF JsGt(nf, Fin(0)) THEN JsCeilDiv(tr, nf.v) ELSE Fin(0)

\* line 55
BaseRisers(tr, nf) ==
    IF JsGt(nf, Fin(0)) THEN JsFloorDiv(tr, nf) ELSE Fin(0)

\* line 56
ExtraRisers(tr, nf) ==
    IF JsGt(nf, Fin(0)) THEN JsMod(tr, nf) ELSE Fin(0)

\* lines 55-59 (loop initialisation)
Distribute ==
    /\ pc = "distribute"
    /\ base_risers_per_flight' = BaseRisers(total_risers, num_flights)
    /\ extra_risers' = ExtraRisers(total_risers, num_flights)
    /\ flights_data' = <<>>
    /\ i' = 0
    /\ pc' = "loop"
    /\ UNCHANGED vizVars
    /\ UNCHANGED <<params, H, SW, R, T, ST, LL, LD, LT, total_risers,
                   num_flights, num_landings, skipped, report, results>>

\* variant: the remainder given to the highest flights
FlightRisersBackLoaded(n) ==
    JsAdd(base_risers_per_flight,
          IF JsLe(num_flights, JsAdd(Fin(n), extra_risers)) THEN Fin(1) ELSE Fin(0))

\* line 60
FlightRisers(n) ==
    JsAdd(base_risers_per_flight,
          IF JsLt(Fin(n), extra_risers) THEN Fin(1) ELSE Fin(0))

\* variant: as many treads as risers
FlightTreadsSame(risers) == risers

\* line 62
FlightTreads(risers) == JsSub(risers, Fin(1))

\* lines 62-66
Flight(risers) ==
    LET treads == FlightTreads(risers)
        run == JsScale(treads, T)
        rise == JsScale(risers, R)
    IN  [risers |-> risers, treads |-> treads, run |-> run, rise |-> rise,
         inclined_length |-> JsHypot(run, rise)]

\* line 59
LoopGuard == JsLt(Fin(i), num_flights)

\* lines 59-67: one pass of the flight loop.  A push onto an array that
\* cannot grow any further throws out of the function.
FlightLoopStep ==
    /\ pc = "loop"
    /\ LoopGuard
    /\ LET risers == FlightRisers(i)
       IN  IF JsEq(risers, Fin(0))
           THEN /\ skipped' = skipped + 1
                /\ i' = i + 1
                /\ UNCHANGED <<flights_data, pc>>
           ELSE IF Len(flights_data) >= MaxArrayLength
           THEN /\ pc' = "threw"
                /\ UNCHANGED <<flights_data, i, skipped>>
           ELSE /\ flights_data' = Append(flights_data, Flight(risers))
                /\ i' = i + 1
                /\ UNCHANGED <<skipped, pc>>
    /\ UNCHANGED vizVars
    /\ UNCHANGED <<params, H, SW, R, T, ST, LL, LD, LT, total_risers,
                   num_flights, num_landings, base_risers_per_flight,
                   extra_risers, report, results>>

\* lines 76-81: a sum over the flights, in ascending order.  The loop is
\* left only with a finite flight count, so every flight summed is finite.
RECURSIVE SumSeq(_)
SumSeq(xs) == IF xs = <<>> THEN 0 ELSE Head(xs) + SumSeq(Tail(xs))

InclinedOf(f) == f.inclined_length.v
WaistOf(f) == FxMul(FxMul(f.inclined_length.v, SW), ST)
StepsOf(f) == (FxMul(FxMul(SW, T), R) \div 2) * f.treads.v
TreadsOf(f) == f.treads.v

\* line 77
TotalInclinedLength(fs) == SumSeq([n \in 1..Len(fs) |-> InclinedOf(fs[n])])
\* line 78
VolumeWaistSlabs(fs) == SumSeq([n \in 1..Len(fs) |-> WaistOf(fs[n])])
\* line 79
VolumeSteps(fs) == SumSeq([n \in 1..Len(fs) |-> StepsOf(fs[n])])
\* variant: the risers counted as treads
TotalTreadsAsRisers(fs) == SumSeq([n \in 1..Len(fs) |-> fs[n].risers.v])

\* line 80
TotalTreads(fs) == SumSeq([n \in 1..Len(fs) |-> TreadsOf(fs[n])])
\* line 87
FormworkBottomSlab(fs) ==
    FxMul(TotalInclinedLength(fs), SW) + FxMul(TotalInclinedLength(fs), ST)
\* line 90
FormworkLandingBottom == FxMul(LL, LD) * num_landings.v
\* line 91
VolumeLandings == FxMul(FxMul(LL, LD), LT) * num_landings.v
\* line 94
FormworkRisers == (FxMul(R, SW) + (FxMul(R, T) \div 2)) * total_risers.v
\* line 97
FormworkAboveSlab == 0
\* variant: the total volume without the landings
TotalVolumeNoLandings(fs) == VolumeWaistSlabs(fs) + VolumeSteps(fs)

\* line 100
TotalVolume(fs) == VolumeWaistSlabs(fs) + VolumeSteps(fs) + VolumeLandings
\* line 103
TotalFormworkArea(fs) ==
    FormworkBottomSlab(fs) + FormworkLandingBottom + FormworkRisers

\* lines 105-119
Metrics ==
    [num_flights |-> num_flights, num_landings |-> num_landings,
     total_treads |-> Fin(TotalTreads(flights_data)),
     total_volume |-> Fin(TotalVolume(flights_data)),
     total_formwork_area |-> Fin(TotalFormworkArea(flights_data)),
     formwork_bottom_slab |-> Fin(FormworkBottomSlab(flights_data)),
     formwork_landing_bottom |-> Fin(FormworkLandingBottom),
     formwork_risers |-> Fin(FormworkRisers),
     formwork_above_slab |-> Fin(FormworkAboveSlab),
     volume_waist_slabs |-> Fin(VolumeWaistSlabs(flights_data)),
     volume_landings |-> Fin(VolumeLandings),
     volume_steps |-> Fin(VolumeSteps(flights_data)),
     flights_data |-> flights_data,
     R |-> R, T |-> T, ST |-> ST, LD |-> LD, LT |-> LT]

\* lines 69-119: the loop is over; aggregate and return
AggregateAndReturn ==
    /\ pc = "loop"
    /\ ~LoopGuard
    /\ report' = Metrics
    /\ pc' = "done"
    /\ UNCHANGED vizVars
    /\ UNCHANGED <<params, H, SW, R, T, ST, LL, LD, LT, total_risers,
                   num_flights, num_landings, base_risers_per_flight,
                   extra_risers, i, flights_data, skipped, results>>

-----------------------------------------------------------------------------
(* App: the memoised call *)

\* App.tsx lines 22-23
MemoReturn ==
    /\ pc = "done"
    /\ results = "pending"
    /\ results' = "report"
    /\ UNCHANGED vizVars
    /\ UNCHANGED <<params, pc, H, SW, R, T, ST, LL, LD, LT, total_risers,
                   num_flights, num_landings, base_risers_per_flight,
                   extra_risers, i, flights_data, skipped, report>>

\* App.tsx lines 24-27
MemoCatch ==
    /\ pc = "threw"
    /\ results = "pending"
    /\ results' = "null"
    /\ UNCHANGED vizVars
    /\ UNCHANGED <<params, pc, H, SW, R, T, ST, LL, LD, LT, total_risers,
                   num_flights, num_landings, base_risers_per_flight,
                   extra_risers, i, flights_data, skipped, report>>

-----------------------------------------------------------------------------

Next ==
    \/ Normalize
    \/ ReturnZero
    \/ DeriveTopology
    \/ Distribute
    \/ FlightLoopStep
    \/ AggregateAndReturn
    \/ MemoReturn
    \/ MemoCatch

Spec == Init /\ [][Next]_vars

\* the call runs to its end: no step of it waits on anything
FairSpec == Spec /\ WF_vars(Next)

-----------------------------------------------------------------------------
(* StairVisualizer: zoom, pan and reset (src/unnamed/part_000) *)

\* the furthest (pixels, either axis) the view is followed from its origin
MaxViewOffset == 6

\* the wheel's deltaY values tried: a step in (zoom * 1.25), a step out
\* (zoom * 0.8), a touchpad trickle (zoom * 0.995) and a fling (zoom * -0.5)
WheelDeltas == {-50, 40, 1, 300}

\* pointer positions over the canvas, relative to its top-left corner
MousePoints == {<<4, 3>>}

\* variant: zooming in without the upper limit of 10
ZoomInNoLimit(prev) == (prev * 125) \div 100

\* line 14: Math.min(prev * 1.25, 10)
ZoomInValue(prev) == Min2((prev * 125) \div 100, 1000)

\* variant: zooming out without the lower limit of 0.2
ZoomOutNoLimit(prev) == (prev * 100) \div 125

\* line 15: Math.max(prev / 1.25, 0.2)
ZoomOutValue(prev) == Max2((prev * 100) \div 125, 20)

\* The buttons' handlers are React event handlers: React renders their
\* update and runs the effects of that render (lines 41-71 among them)
\* before the next event, so their step ends with the wheel handler
\* registered afresh.  The wheel handler is a native listener: its update is
\* rendered later (WheelEffect), and further wheel events can reach the
\* handler of the old render first.  Dragging (lines 21-38) moves the offset
\* only and is left out.

\* line 14
ZoomIn ==
    /\ zoom' = ZoomInValue(zoom)
    /\ wheelZoom' = zoom'
    /\ wheelOffset' = offset
    /\ lastEvent' = [kind |-> "zoomIn", deltaY |-> 0]
    /\ UNCHANGED offset
    /\ UNCHANGED engineVars

\* line 15
ZoomOut ==
    /\ zoom' = ZoomOutValue(zoom)
    /\ wheelZoom' = zoom'
    /\ wheelOffset' = offset
    /\ lastEvent' = [kind |-> "zoomOut", deltaY |-> 0]
    /\ UNCHANGED offset
    /\ UNCHANGED engineVars

\* lines 16-19
ResetView ==
    /\ zoom' = 100
    /\ offset' = <<0, 0>>
    /\ wheelZoom' = zoom'
    /\ wheelOffset' = offset'
    /\ lastEvent' = [kind |-> "resetView", deltaY |-> 0]
    /\ UNCHANGED engineVars

\* the view offsets followed
InView(o) == Abs(o[1]) <= MaxViewOffset /\ Abs(o[2]) <= MaxViewOffset

\* line 52: deltaY * -0.005, in thousandths
WheelDelta(deltaY) == -5 * deltaY

\* line 54: Math.max(0.2, Math.min(zoom * (1 + delta), 10)), in thousandths
\* of the zoom's unit
WheelNewZoom(z, deltaY) ==
    Max2(20000, Min2(z * (1000 + WheelDelta(deltaY)), 1000000))

\* variant: the early return left out
WheelNeverReturnsEarly(z, newZoom) == FALSE

\* lines 55-57: Math.abs(1 - newZoom / zoom) < 0.01
WheelReturnsEarly(z, newZoom) == 100 * Abs(1000 * z - newZoom) < 1000 * z

\* lines 59-60: mouse - (mouse - offset) * zoomFactor, cut to the pixel
WheelNewOffset(mouse, o, z, newZoom) ==
    <<mouse[1] - (((mouse[1] - o[1]) * newZoom) \div (1000 * z)),
      mouse[2] - (((mouse[2] - o[2]) * newZoom) \div (1000 * z))>>

\* lines 45-64: the handler works on the zoom and offset of the render that
\* registered it; line 62 stores the new zoom, cut to the zoom's unit
HandleWheel(deltaY, mouse) ==
    /\ LET newZoom == WheelNewZoom(wheelZoom, deltaY)
       IN  IF WheelReturnsEarly(wheelZoom, newZoom)
           THEN UNCHANGED <<zoom, offset>>
           ELSE /\ InView(WheelNewOffset(mouse, wheelOffset, wheelZoom, newZoom))
                /\ zoom' = newZoom \div 1000
                /\ offset' = WheelNewOffset(mouse, wheelOffset, wheelZoom, newZoom)
    /\ lastEvent' = [kind |-> "wheel", deltaY |-> deltaY]
    /\ UNCHANGED <<wheelZoom, wheelOffset>>
    /\ UNCHANGED engineVars

\* lines 41-71: zoom or offset changed, so the effect registers a handler
\* closed over the new values
WheelEffect ==
    /\ <<wheelZoom, wheelOffset>> # <<zoom, offset>>
    /\ wheelZoom' = zoom
    /\ wheelOffset' = offset
    /\ UNCHANGED <<zoom, offset, lastEvent>>
    /\ UNCHANGED engineVars

\* the component is mounted with the application's initial parameters
VizInit == Init /\ params = DefaultParams

VizNext ==
    \/ ZoomIn
    \/ ZoomOut
    \/ ResetView
    \/ \E deltaY \in WheelDeltas, mouse \in MousePoints : HandleWheel(deltaY, mouse)
    \/ WheelEffect

VizSpec == VizInit /\ [][VizNext]_vars

-----------------------------------------------------------------------------
(* Well-formedness of the model *)

\* every flight summed by the aggregation is finite
FiniteAtExit ==
    pc = "done" =>
        /\ IsFin(num_flights) /\ IsFin(num_landings) /\ IsFin(total_risers)
        /\ \A n \in 1..Len(flights_data) :
              /\ IsFin(flights_data[n].risers)
              /\ IsFin(flights_data[n].treads)
              /\ IsFin(flights_data[n].inclined_length)

\* the call threw only because the height left the finite range
ThrowsOnlyOnOverflow == pc = "threw" => ~IsFin(params.height)

-----------------------------------------------------------------------------
(* Properties *)

Returned == pc = "done"

\* riser > 0, height > 0, tread > 0
ValidInput ==
    params.riser > 0 /\ JsGt(params.height, Fin(0)) /\ params.tread > 0

Max(a, b) == IF a > b THEN a ELSE b
Min(a, b) == IF a < b THEN a ELSE b

\* the risers of the flights fs, added up
SumRisers(fs) == SumSeq([n \in 1..Len(fs) |-> fs[n].risers.v])

\* C1: an input with riser <= 0 or height <= 0 or tread <= 0 is answered by
\* a report whose twelve aggregate fields are all 0 and whose flights_data is
\* empty, whatever the other fields are.
C1_ZeroReport ==
    (Returned /\ ~ValidInput) =>
        /\ \A f \in {"num_flights", "num_landings", "total_treads", "total_volume",
                     "total_formwork_area", "formwork_bottom_slab",
                     "formwork_landing_bottom", "formwork_risers",
                     "formwork_above_slab", "volume_waist_slabs",
                     "volume_landings", "volume_steps"} : report[f] = Fin(0)
        /\ report.flights_data = <<>>

\* a zero riser with all else valid has been answered by the zero report
C1_Witness ==
    /\ Returned
    /\ params.riser = 0 /\ JsGt(params.height, Fin(0)) /\ params.tread > 0
    /\ params.stairWidth > 0 /\ params.landingDepth > 0
    /\ report.num_flights = Fin(0) /\ report.total_volume = Fin(0)
    /\ report.flights_data = <<>>

\* C2: the call is total: whatever the eight inputs are, a very large height
\* included, it never ends in an error.
C2_NeverThrows == pc # "threw"

\* C3: for a valid input with round(height / riser) > 0, the risers of the
\* flights returned add up to round(height / riser).
C3_RiserConservation ==
    (Returned /\ ValidInput /\ JsGt(total_risers, Fin(0))) =>
        /\ total_risers \in TotalRisers(params.height, params.riser \div 1000)
        /\ SumRisers(report.flights_data) = total_risers.v

\* risers that do not divide evenly among the flights have been handed out
C3_Witness ==
    /\ Returned /\ ValidInput
    /\ total_risers = Fin(67) /\ JsGt(extra_risers, Fin(0))
    /\ SumRisers(report.flights_data) = 67

\* the flight count the banding policy gives a finite height h with tr risers
BandPolicy(h, tr) ==
    IF h <= 5700 THEN 2
    ELSE IF h <= 8000 THEN 4
    ELSE IF h <= 12000 THEN 6
    ELSE (tr + 17) \div 18

\* C4: for a valid input with totalRisers > 0, num_flights is min(B,
\* totalRisers), B being 2 up to 5.7, 4 up to 8, 6 up to 12 (each bound
\* inclusive) and ceil(totalRisers / 18) above 12; height 5.7 gives 2, 5.701
\* gives 4, 8.0 gives 4, 12.0 gives 6 when the risers are enough, and 12.001
\* with 67 risers gives 4.
C4_Banding ==
    (Returned /\ ValidInput /\ JsGt(total_risers, Fin(0))) =>
        LET h == params.height.v
            tr == total_risers.v
            nf == report.num_flights
        IN  /\ nf = Fin(Min(BandPolicy(h, tr), tr))
            /\ (h = 5700 /\ tr >= 2) => nf = Fin(2)
            /\ (h = 5701 /\ tr >= 4) => nf = Fin(4)
            /\ (h = 8000 /\ tr >= 4) => nf = Fin(4)
            /\ (h = 12000 /\ tr >= 6) => nf = Fin(6)
            /\ (h = 12001 /\ tr = 67) => nf = Fin(4)

\* 12.001 m over 67 risers has been answered with 4 flights
C4_Witness ==
    /\ Returned /\ ValidInput
    /\ params.height = Fin(12001) /\ total_risers = Fin(67)
    /\ report.num_flights = Fin(4)

\* C5: for a valid input with totalRisers > 0, 1 <= num_flights <=
\* totalRisers, in every height band.
C5_FlightClamp ==
    (Returned /\ ValidInput /\ JsGt(total_risers, Fin(0))) =>
        /\ JsLe(Fin(1), report.num_flights)
        /\ JsLe(report.num_flights, total_risers)

\* a height of the 4-flight band with only 2 risers has been answered with
\* 2 flights
C5_Witness ==
    /\ Returned /\ ValidInput
    /\ JsGt(params.height, Fin(5700)) /\ JsLe(params.height, Fin(8000))
    /\ total_risers = Fin(2) /\ report.num_flights = Fin(2)

\* C6: every report returned (valid input, invalid input or zero risers) has
\* num_landings = max(num_flights - 1, 0).
C6_LandingCount ==
    Returned =>
        /\ IsFin(report.num_flights) /\ IsFin(report.num_landings)
        /\ report.num_landings.v = Max(report.num_flights.v - 1, 0)

\* a valid input whose height rounds to zero risers has been answered with
\* no flight and no landing
C6_Witness ==
    /\ Returned /\ ValidInput
    /\ total_risers = Fin(0)
    /\ report.num_flights = Fin(0) /\ report.num_landings = Fin(0)

\* C7: every flight of every report has treads = risers - 1 >= 0, run =
\* treads * T and rise = risers * R for the normalised tread T and riser R.
C7_TreadRiser ==
    Returned =>
        \A n \in 1..Len(report.flights_data) :
            LET f == report.flights_data[n]
            IN  /\ IsFin(f.risers) /\ IsFin(f.treads)
                /\ f.treads.v = f.risers.v - 1
                /\ f.treads.v >= 0
                /\ f.run = Fin(f.treads.v * report.T)
                /\ f.rise = Fin(f.risers.v * report.R)

\* a flight of 11 risers has been returned with 10 treads
C7_Witness ==
    /\ Returned
    /\ Len(report.flights_data) >= 1
    /\ report.flights_data[1].risers = Fin(11)
    /\ report.flights_data[1].treads = Fin(10)

\* C8: for a valid input with num_flights > 0, flight i (0-based) has
\* floor(totalRisers / num_flights) + 1 risers if i < totalRisers mod
\* num_flights and floor(totalRisers / num_flights) otherwise; so the riser
\* counts never increase with the index and differ by at most one.
C8_FrontLoaded ==
    (Returned /\ ValidInput /\ JsGt(report.num_flights, Fin(0))) =>
        LET tr == total_risers.v
            nf == report.num_flights.v
            fs == report.flights_data
        IN  /\ Len(fs) = nf
            /\ \A n \in 1..Len(fs) :
                  fs[n].risers =
                      Fin((tr \div nf) + (IF n - 1 < tr % nf THEN 1 ELSE 0))
            /\ \A m, n \in 1..Len(fs) :
                  /\ m <= n => fs[m].risers.v >= fs[n].risers.v
                  /\ fs[m].risers.v - fs[n].risers.v \in {-1, 0, 1}

\* 67 risers over 4 flights have been returned as 17, 17, 17, 16
C8_Witness ==
    /\ Returned /\ ValidInput
    /\ total_risers = Fin(67)
    /\ [n \in 1..Len(report.flights_data) |-> report.flights_data[n].risers.v]
          = <<17, 17, 17, 16>>

\* part_000 line 200: the renderer draws a landing after flight f (0-based)
DrawsLandingAfter(f) == JsLt(Fin(f), report.num_landings)

\* C9: the loop never takes its `risers === 0` skip, so a report's
\* flights_data has exactly num_flights entries, each of at least one riser,
\* and the renderer's test draws a landing after every flight but the last.
C9_NoFlightDropped ==
    /\ skipped = 0
    /\ Returned =>
          /\ report.num_flights = Fin(Len(report.flights_data))
          /\ \A n \in 1..Len(report.flights_data) :
                /\ JsLe(Fin(1), report.flights_data[n].risers)
                /\ DrawsLandingAfter(n - 1) <=> n # Len(report.flights_data)

\* a single riser in the 2-flight band has been returned as one flight of
\* one riser, with nothing skipped
C9_Witness ==
    /\ Returned /\ ValidInput
    /\ JsLe(params.height, Fin(5700))
    /\ total_risers = Fin(1)
    /\ Len(report.flights_data) = 1
    /\ report.flights_data[1].risers = Fin(1)
    /\ skipped = 0

\* C10: the default parameters give 22 risers, 2 flights of 11 risers and 10
\* treads each with run 2.8 m and rise 1.98 m, 1 landing and 20 treads in all.
C10_DefaultScenario ==
    (Returned /\ params = DefaultParams) =>
        /\ total_risers = Fin(22)
        /\ report.num_flights = Fin(2)
        /\ report.num_landings = Fin(1)
        /\ report.total_treads = Fin(20)
        /\ Len(report.flights_data) = 2
        /\ \A n \in 1..Len(report.flights_data) :
              /\ report.flights_data[n].risers = Fin(11)
              /\ report.flights_data[n].treads = Fin(10)
              /\ report.flights_data[n].run = Fin(2800)
              /\ report.flights_data[n].rise = Fin(1980)
              /\ report.flights_data[n].inclined_length.v \in 3429..3430

\* the default parameters have been answered
C10_Witness ==
    /\ Returned /\ params = DefaultParams
    /\ report.num_flights = Fin(2)
    /\ Len(report.flights_data) = 2

\* C11: a valid input with totalRisers = 1 (0.18 m over a 180 mm riser, say)
\* is answered with 1 flight and 0 landings, the flight having 1 riser, 0
\* treads and run 0; total_treads and the landing quantities are 0.
C11_SingleStep ==
    /\ (pc \notin {"start", "gate"} /\ ValidInput /\ params.height = Fin(180)
            /\ params.riser = 180000) => total_risers = Fin(1)
    /\ (Returned /\ ValidInput /\ total_risers = Fin(1)) =>
          /\ report.num_flights = Fin(1)
          /\ report.num_landings = Fin(0)
          /\ Len(report.flights_data) = 1
          /\ report.flights_data[1].risers = Fin(1)
          /\ report.flights_data[1].treads = Fin(0)
          /\ report.flights_data[1].run = Fin(0)
          /\ report.total_treads = Fin(0)
          /\ report.formwork_landing_bottom = Fin(0)
          /\ report.volume_landings = Fin(0)

\* 0.18 m over a 180 mm riser and a 280 mm tread, with a landing of positive
\* size, has been answered with one flight
C11_Witness ==
    /\ Returned
    /\ params.height = Fin(180) /\ params.riser = 180000
    /\ params.tread = 280000 /\ params.landingDepth > 0
    /\ total_risers = Fin(1)
    /\ Len(report.flights_data) = 1

\* C12: every report, the zero report included, carries R, T, ST, LD and LT
\* equal to the input riser, tread, slabThick, landingDepth and landingThick
\* divided by 1000, whatever their sign, and the height is used unconverted.
C12_EchoedConstants ==
    /\ pc # "start" => H = params.height
    /\ Returned =>
          /\ 1000 * report.R = params.riser
          /\ 1000 * report.T = params.tread
          /\ 1000 * report.ST = params.slabThick
          /\ 1000 * report.LD = params.landingDepth
          /\ 1000 * report.LT = params.landingThick

\* a zero report has been returned carrying a negative riser and its landing
\* depth
C12_Witness ==
    /\ Returned /\ ~ValidInput
    /\ params.riser = -180000 /\ report.R = -180
    /\ report.LD = 1495 /\ report.LT = 200
    /\ report.num_flights = Fin(0)

\* C13: in every report total_volume is volume_waist_slabs + volume_steps +
\* volume_landings, total_formwork_area is formwork_bottom_slab +
\* formwork_landing_bottom + formwork_risers, and formwork_above_slab is 0.
C13_TotalsConsistent ==
    Returned =>
        /\ report.total_volume =
              Fin(report.volume_waist_slabs.v + report.volume_steps.v
                    + report.volume_landings.v)
        /\ report.total_formwork_area =
              Fin(report.formwork_bottom_slab.v + report.formwork_landing_bottom.v
                    + report.formwork_risers.v)
        /\ report.formwork_above_slab = Fin(0)

\* a report with positive waist, step and landing volumes and positive
\* formwork parts has been returned
C13_Witness ==
    /\ Returned
    /\ report.volume_waist_slabs.v > 0 /\ report.volume_steps.v > 0
    /\ report.volume_landings.v > 0
    /\ report.formwork_bottom_slab.v > 0 /\ report.formwork_landing_bottom.v > 0
    /\ report.formwork_risers.v > 0

\* C14: a valid input has totalRisers = 0 exactly when its height is less
\* than half the riser, and is then answered with 0 flights, 0 landings, no
\* flight and every aggregate 0; a height of exactly half the riser gives 1
\* riser.
C14_ZeroRisers ==
    (Returned /\ ValidInput) =>
        LET h == params.height.v
            r == params.riser \div 1000
        IN  /\ (2 * h < r) <=> (total_risers = Fin(0))
            /\ (2 * h = r) => total_risers = Fin(1)
            /\ total_risers = Fin(0) =>
                  /\ \A f \in {"num_flights", "num_landings", "total_treads",
                               "total_volume", "total_formwork_area",
                               "formwork_bottom_slab", "formwork_landing_bottom",
                               "formwork_risers", "formwork_above_slab",
                               "volume_waist_slabs", "volume_landings",
                               "volume_steps"} : report[f] = Fin(0)
                  /\ report.flights_data = <<>>

\* 0.05 m over a 180 mm riser, with a stair and a landing of positive size,
\* has been answered with nothing to build
C14_Witness ==
    /\ Returned /\ ValidInput
    /\ params.height = Fin(50) /\ params.riser = 180000
    /\ params.stairWidth > 0 /\ params.landingDepth > 0
    /\ total_risers = Fin(0)
    /\ report.formwork_risers = Fin(0) /\ report.total_formwork_area = Fin(0)

\* the treads of the flights fs, added up
SumTreads(fs) == SumSeq([n \in 1..Len(fs) |-> fs[n].treads.v])

\* C15: for a valid input with totalRisers > 0, total_treads is the sum of
\* the flights' treads, which is totalRisers - num_flights.
C15_TotalTreads ==
    (Returned /\ ValidInput /\ JsGt(total_risers, Fin(0))) =>
        /\ report.total_treads = Fin(SumTreads(report.flights_data))
        /\ report.total_treads = Fin(total_risers.v - report.num_flights.v)

\* 67 risers over 4 flights have been returned with 63 treads
C15_Witness ==
    /\ Returned /\ ValidInput
    /\ total_risers = Fin(67) /\ report.num_flights = Fin(4)
    /\ report.total_treads = Fin(63)

\* C16: for a valid input with height > 12 no flight has more than 18
\* risers.
C16_RiserCapAbove12 ==
    (Returned /\ ValidInput /\ JsGt(params.height, Fin(12000))) =>
        \A n \in 1..Len(report.flights_data) :
            JsLe(report.flights_data[n].risers, Fin(18))

\* 16.2 m over 90 risers has been returned as 5 flights of 18 risers
C16_Witness ==
    /\ Returned /\ ValidInput
    /\ params.height = Fin(16200) /\ total_risers = Fin(90)
    /\ Len(report.flights_data) = 5
    /\ \A n \in 1..Len(report.flights_data) :
          report.flights_data[n].risers = Fin(18)

\* inside the bands nothing caps a flight: 5.7 m over 38 risers has been
\* returned as 2 flights of 19 risers
C16_BandUncapped ==
    /\ Returned /\ ValidInput
    /\ params.height = Fin(5700) /\ total_risers = Fin(38)
    /\ Len(report.flights_data) = 2
    /\ report.flights_data[1].risers = Fin(19)

\* the rise of the flights fs, added up
SumRise(fs) == SumSeq([n \in 1..Len(fs) |-> fs[n].rise.v])

\* C17: for a valid input the flights' rise adds up to totalRisers * R, with
\* the nominal riser R, and differs from the height by at most R / 2.
C17_RiseWithinHalfRiser ==
    (Returned /\ ValidInput) =>
        LET built == SumRise(report.flights_data)
        IN  /\ built = total_risers.v * report.R
            /\ 2 * Abs(built - params.height.v) <= report.R

\* 5.7 m over a 3 m riser has been built 6 m high
C17_Witness ==
    /\ Returned /\ ValidInput
    /\ params.height = Fin(5700) /\ report.R = 3000
    /\ SumRise(report.flights_data) = 6000

\* the zoom a wheel event of deltaY asks of zoom z, kept within [0.2, 10],
\* in thousandths of the zoom's unit
ClampedWheelZoom(z, deltaY) ==
    Max(20000, Min(z * 1000 - 5 * z * deltaY, 1000000))

\* the wheel event handled last asked its handler for a zoom change under 1%
WheelChangeUnderOnePercent ==
    /\ lastEvent.kind = "wheel"
    /\ 100 * Abs(ClampedWheelZoom(wheelZoom, lastEvent.deltaY) - 1000 * wheelZoom)
           < 1000 * wheelZoom

\* C18: from zoom = 1 and offset = (0,0), after any sequence of zoomIn,
\* zoomOut, wheel and resetView events the zoom stays within [0.2, 10];
\* resetView always restores zoom = 1 and offset = (0,0); and a wheel event
\* whose clamped zoom change is under 1% leaves zoom and offset unchanged.
C18_ZoomView ==
    /\ [](zoom >= 20 /\ zoom <= 1000)
    /\ [](lastEvent.kind = "resetView" => (zoom = 100 /\ offset = <<0, 0>>))
    /\ [][(lastEvent' # lastEvent /\ WheelChangeUnderOnePercent')
              => (zoom' = zoom /\ offset' = offset)]_vars

\* at the upper limit, away from the origin, a wheel event asking for more
\* zoom has been handled
C18_Witness ==
    /\ WheelChangeUnderOnePercent
    /\ lastEvent.deltaY < 0
    /\ zoom = 1000 /\ wheelZoom = 1000
    /\ offset # <<0, 0>>

====
